---- MODULE Spec2Model ----
(***************************************************************************)
(* HeatmapAprChart: the live-refreshing heatmap component.                 *)
(*                                                                         *)
(* The module models                                                        *)
(*   - the pure helpers (matrix builder, default data, cell label          *)
(*     formatter, theme palette lookup) as operators, and                  *)
(*   - the component instance as a state machine: its useState cells, the  *)
(*     polling effect with its closure (isCancelled, intervalId), the      *)
(*     resize effect, the memoised matrix and the composition effect.      *)
(*                                                                         *)
(* JavaScript values that are not plain integers (undefined, NaN) are      *)
(* tagged records, so that a missing matrix cell is a value of its own.    *)
(* Arrays are sequences; the code's indices are 0-based and are kept       *)
(* 0-based in every emitted triple.                                        *)
(***************************************************************************)
EXTENDS Integers, Sequences, FiniteSets

VARIABLES
    phase,          \* "initial" (first render, effects not yet run) | "mounted" | "unmounted" | "crashed"
    options,        \* useState<EChartsOption | null>
    selectedToken,  \* useState<TokenType>
    dataset,        \* useState<HeatmapJsonDataset | null>
    lastUpdatedAt,  \* useState<number | null>; 0 stands for null
    isMobile,       \* useState(false)
    resolvedTheme,  \* useTheme().resolvedTheme
    innerWidth,     \* window.innerWidth
    resizeListener, \* whether checkMobile is registered on window
    effect,         \* id of the polling effect instance currently set up (0: none)
    cancelled,      \* ids of the polling effect instances whose isCancelled is true
    timers,         \* live intervals: records [effect, token] (the closure of fetchData)
    inflight,       \* fetches awaiting their response: records [id, effect, token]
    nextFetch,      \* id the next initiated fetch gets (initiation order)
    now,            \* Date.now(), a logical clock
    lastCommit,     \* history: the fetch whose result was last written to state
    bDataset,       \* matrix builder under test: its dataset argument
    bConfig,        \* matrix builder under test: the showNegativeFunding prop
    bResult,        \* matrix builder under test: what it returned
    fParams,        \* label formatter under test: its params argument
    fLabel,         \* label formatter under test: the text it returned
    tCalls,         \* theme resolver under test: its calls so far, [isDark, palette] each
    tMode,          \* theme resolver under test: the mode handed to getThemeColors
    tSelected       \* theme resolver under test: the palette getThemeColors returned

compVars == <<phase, options, selectedToken, dataset, lastUpdatedAt, isMobile,
              resolvedTheme, innerWidth, resizeListener, effect, cancelled,
              timers, inflight, nextFetch, now, lastCommit>>
builderVars == <<bDataset, bConfig, bResult>>
labelVars == <<fParams, fLabel>>
themeVars == <<tCalls, tMode, tSelected>>
vars == <<compVars, builderVars, labelVars, themeVars>>

----------------------------------------------------------------------------
(* Bounds *)

\* Longest sources / pools / valuesBps / row sequence of an enumerated dataset.
MaxDim == 2
\* Cell values handed to the label formatter range over -MaxLabelValue..MaxLabelValue.
MaxLabelValue == 60
\* Fetches initiated in one behaviour.
MaxFetches == 3
\* Polling effect instances set up in one behaviour.
MaxEffects == 2
\* Calls of getColorsByTheme in one behaviour.
MaxCalls == 2

----------------------------------------------------------------------------
(* JavaScript values *)

Num(n) == [t |-> "number", n |-> n]
Undefined == [t |-> "undefined"]
NaN == [t |-> "NaN"]
Null == [json |-> "null"]
NoResult == [called |-> FALSE]

Digit(d) == CASE d = 0 -> "0" [] d = 1 -> "1" [] d = 2 -> "2" [] d = 3 -> "3"
              [] d = 4 -> "4" [] d = 5 -> "5" [] d = 6 -> "6" [] d = 7 -> "7"
              [] d = 8 -> "8" [] d = 9 -> "9"

RECURSIVE Decimal(_)
Decimal(n) == IF n < 10 THEN Digit(n) ELSE Decimal(n \div 10) \o Digit(n % 10)

\* `${v}` in a template literal.
Stringify(v) ==
    CASE v.t = "undefined" -> "undefined"
      [] v.t = "NaN" -> "NaN"
      [] v.t = "number" -> IF v.n < 0 THEN "-" \o Decimal(-v.n) ELSE Decimal(v.n)

\* v > 0; a comparison with undefined or NaN is false.
GreaterThanZero(v) == v.t = "number" /\ v.n > 0

----------------------------------------------------------------------------
(* Theme palette: config (CHART_COLORS, getColorsByTheme, COLORS,          *)
(* getThemeColors) and the AppThemes enum                                  *)

AppThemesLIGHT == "light"
AppThemesDARK == "dark"
AppThemesSYSTEM == "system"

CHART_COLORS ==
    [light |->
        [text |-> "#434651",
         axis |-> "rgba(46, 49, 60, 0.1)",
         line |-> "rgba(46, 49, 60, 0.2)",
         tooltipBackground |-> "rgba(255, 255, 255, 0.98)",
         hyperEvmLp |-> "#3333ff",
         hyperEvmBalances |-> "#47b8b8",
         hyperCorePerp |-> "#ff3366",
         hyperCoreSpot |-> "#ff9933",
         heatmapGradient |-> <<"#dcfce7", "#fef3c7", "#fed7aa", "#fecaca", "#86efac",
                               "#fde047", "#fb923c", "#f87171", "#dc2626">>],
     dark |->
        [text |-> "#e6e8ef",
         axis |-> "rgba(209, 212, 220, 0.4)",
         line |-> "rgba(209, 212, 220, 0.2)",
         tooltipBackground |-> "rgba(20, 30, 45, 0.99)",
         hyperEvmLp |-> "#6666ff",
         hyperEvmBalances |-> "#47d4e6",
         hyperCorePerp |-> "#ff6680",
         hyperCoreSpot |-> "#ffaa4d",
         heatmapGradient |-> <<"#14532d", "#713f12", "#9a3412", "#991b1b", "#16a34a",
                               "#ca8a04", "#ea580c", "#dc2626", "#b91c1c">>]]

getColorsByTheme(isDark) ==
    LET mode == IF isDark THEN "dark" ELSE "light"
        chartColors == CHART_COLORS[mode]
    IN  [background |-> IF mode = "dark" THEN "#0f1a1f" ELSE "#f6fefd",
         backgroundOpposite |-> IF mode = "dark" THEN "#f6fefd" ELSE "#0f1a1f",
         primary |-> "#22ab94",
         default |-> IF mode = "dark" THEN "#d1d4dc" ELSE "#2e313c",
         hyperEvmLp |-> chartColors.hyperEvmLp,
         hyperEvmBalances |-> chartColors.hyperEvmBalances,
         hyperCorePerp |-> chartColors.hyperCorePerp,
         hyperCoreSpot |-> chartColors.hyperCoreSpot,
         charts |-> chartColors]

COLORS == [light |-> getColorsByTheme(FALSE), dark |-> getColorsByTheme(TRUE)]

getThemeColorsDarkUnlessLight(mode) ==
    IF mode = AppThemesLIGHT THEN COLORS.light ELSE COLORS.dark
getThemeColors(mode) == IF mode = AppThemesDARK THEN COLORS.dark ELSE COLORS.light

----------------------------------------------------------------------------
(* Matrix builder: generateHeatmapData and the heatmapData memo            *)

\* A fetched document is a record with some of the fields sources, pools,
\* valuesBps; a field the document lacks is undefined.
HasField(d, f) == f \in DOMAIN d

\* d.f?.length as a truth value: undefined and 0 are falsy.
TruthyLength(d, f) == HasField(d, f) /\ Len(d[f]) > 0

\* valuesBps[j][i] with 0-based j, i. Reading an index past the end of an
\* array gives undefined; reading [i] of an undefined row throws a TypeError.
RowMissing(valuesBps, j) == j + 1 > Len(valuesBps)
CellNoTranspose(valuesBps, j, i) ==
    IF i + 1 > Len(valuesBps) \/ j + 1 > Len(valuesBps[i + 1])
    THEN Undefined ELSE Num(valuesBps[i + 1][j + 1])
Cell(valuesBps, j, i) ==
    IF i + 1 > Len(valuesBps[j + 1]) THEN Undefined ELSE Num(valuesBps[j + 1][i + 1])

\* for (let j = 0; j < pools.length; j++) data.push([i, j, valuesBps[j][i]])
\* acc is [threw, data]; a TypeError leaves the loops at once.
RECURSIVE PoolLoop(_, _, _, _, _)
PoolLoop(acc, i, j, M, valuesBps) ==
    IF acc.threw \/ ~(j < M) THEN acc
    ELSE IF RowMissing(valuesBps, j) THEN [threw |-> TRUE, data |-> acc.data]
    ELSE PoolLoop([threw |-> FALSE, data |-> Append(acc.data, <<i, j, Cell(valuesBps, j, i)>>)],
                  i, j + 1, M, valuesBps)

\* for (let i = 0; i < sources.length; i++) { ... }
RECURSIVE SourceLoop(_, _, _, _, _)
SourceLoop(acc, i, N, M, valuesBps) ==
    IF acc.threw \/ ~(i < N) THEN acc
    ELSE SourceLoop(PoolLoop(acc, i, 0, M, valuesBps), i + 1, N, M, valuesBps)

DefaultSources == <<"HYPERCORE", "PYTH", "REDSTONE">>
DefaultPools == <<"POOL A HyperSwap 0.05", "POOL B HyperSwap 0.3", "POOL C Project X">>
DefaultValuesBps == << <<12, 25, -8>>, <<5, 18, 3>>, <<-4, 10, 37>> >>

\* config is [showNegativeFunding]; the function destructures it and never
\* reads it again.
generateHeatmapData(config) ==
    LET showNegativeFunding == config.showNegativeFunding
        sources == DefaultSources
        pools == DefaultPools
        valuesBps == DefaultValuesBps
        loop == SourceLoop([threw |-> FALSE, data |-> <<>>], 0, Len(sources), Len(pools), valuesBps)
    IN  [threw |-> FALSE,
         data |-> loop.data,
         lpSteps |-> Len(sources),
         fundingSteps |-> Len(pools),
         xAxisLabels |-> sources,
         yAxisLabels |-> pools]

\* The guard of the memo: dataset && sources?.length && pools?.length && valuesBps?.length
UsesDatasetIgnoringLength(d) ==
    /\ d # Null
    /\ HasField(d, "sources")
    /\ HasField(d, "pools")
    /\ HasField(d, "valuesBps")
UsesDataset(d) ==
    /\ d # Null
    /\ TruthyLength(d, "sources")
    /\ TruthyLength(d, "pools")
    /\ TruthyLength(d, "valuesBps")

\* The heatmapData memo. A TypeError thrown while building leaves the render
\* without a matrix: the result is [threw |-> TRUE].
heatmapDataOf(d, showNegativeFunding) ==
    IF UsesDataset(d)
    THEN LET loop == SourceLoop([threw |-> FALSE, data |-> <<>>], 0,
                                Len(d.sources), Len(d.pools), d.valuesBps)
         IN  IF loop.threw THEN [threw |-> TRUE]
             ELSE [threw |-> FALSE,
                   data |-> loop.data,
                   lpSteps |-> Len(d.sources),
                   fundingSteps |-> Len(d.pools),
                   xAxisLabels |-> d.sources,
                   yAxisLabels |-> d.pools]
    ELSE generateHeatmapData([showNegativeFunding |-> showNegativeFunding])

----------------------------------------------------------------------------
(* Cell label formatter: series[0].label.formatter                         *)

\* params is [value]: the triple of the cell (any shorter array gives '').
formatterPlusForZero(params) ==
    IF Len(params.value) < 3 THEN ""
    ELSE LET v == params.value[3]
         IN  (IF v.t = "number" /\ v.n >= 0 THEN "+" ELSE "") \o Stringify(v) \o " bps"
formatter(params) ==
    IF Len(params.value) < 3 THEN ""
    ELSE LET v == params.value[3]
         IN  (IF GreaterThanZero(v) THEN "+" ELSE "") \o Stringify(v) \o " bps"

----------------------------------------------------------------------------
(* The component instance                                                  *)

TokenType == {"HYPE", "BTC", "ETH"}
\* resolvedTheme is the theme after "system" has been resolved.
Themes == {AppThemesLIGHT, AppThemesDARK}
\* Viewport widths around the 768 px breakpoint.
Widths == {320, 768, 769}

\* lastCommit before any fetch has written the state.
NoCommit == [id |-> 0]

\* The state of the first render: every useState cell holds its initial
\* value and no effect has run yet.
FirstRender(width, theme) ==
    /\ phase = "initial"
    /\ options = Null
    /\ selectedToken = "HYPE"
    /\ dataset = Null
    /\ lastUpdatedAt = 0
    /\ isMobile = FALSE
    /\ resolvedTheme = theme
    /\ innerWidth = width
    /\ resizeListener = FALSE
    /\ effect = 0
    /\ cancelled = {}
    /\ timers = {}
    /\ inflight = {}
    /\ nextFetch = 1
    /\ now = 1
    /\ lastCommit = NoCommit

BuilderIdle == bDataset = Null /\ bConfig = FALSE /\ bResult = NoResult
LabelIdle == fParams = [value |-> <<>>] /\ fLabel = <<>>
ThemeIdle == tCalls = <<>> /\ tMode = AppThemesLIGHT /\ tSelected = NoResult

----------------------------------------------------------------------------
(* Chart option composer: the composition effect                           *)

\* The showNegativeFunding prop, at its default.
showNegativeFunding == FALSE

IsNumber(v) == v.t = "number"
Values(data) == {data[k][3] : k \in 1..Len(data)}

\* Math.min(...data.map(d => d[2])): NaN as soon as one value is not a number.
minBps(data) ==
    IF \E v \in Values(data) : ~IsNumber(v) THEN NaN
    ELSE Num(CHOOSE m \in {v.n : v \in Values(data)} : \A v \in Values(data) : m <= v.n)
maxBps(data) ==
    IF \E v \in Values(data) : ~IsNumber(v) THEN NaN
    ELSE Num(CHOOSE m \in {v.n : v \in Values(data)} : \A v \in Values(data) : m >= v.n)

\* The fields of chartOptions that depend on the theme, the matrix or the
\* compact flag.
chartOptions(h, colors, isDarkMode, mobile) ==
    [tooltipBackground |-> colors.charts.tooltipBackground,
     tooltipTextColor |-> IF isDarkMode THEN "#f3f4f6" ELSE "#1f2937",
     xAxisData |-> h.xAxisLabels,
     yAxisData |-> h.yAxisLabels,
     axisTextColor |-> colors.charts.text,
     xAxisLabelFontSize |-> IF mobile THEN 13 ELSE 16,
     yAxisLabelFontSize |-> IF mobile THEN 11 ELSE 14,
     axisLabelInterval |-> IF mobile THEN 1 ELSE 0,
     xAxisLabelRotate |-> IF mobile THEN 45 ELSE 0,
     yAxisNameGap |-> IF mobile THEN 40 ELSE 55,
     visualMapMin |-> minBps(h.data),
     visualMapMax |-> maxBps(h.data),
     visualMapColor |-> colors.charts.heatmapGradient,
     seriesData |-> [k \in 1..Len(h.data) |-> [value |-> h.data[k]]],
     labelFontSize |-> IF mobile THEN 10 ELSE 12,
     textColor |-> colors.primary]

\* The composition effect, run after a render with dataset d, theme and
\* compact flag: what the options state holds afterwards. (A render whose
\* matrix throws never gets here; see FetchComplete.)
CompositionEffectPlaceholderWithoutData(opts, d, theme, mobile) ==
    LET h == heatmapDataOf(d, showNegativeFunding)
    IN  IF d = Null THEN Null
        ELSE IF Len(h.data) = 0 THEN opts
        ELSE chartOptions(h, getThemeColors(theme), theme = AppThemesDARK, mobile)
CompositionEffect(opts, d, theme, mobile) ==
    LET h == heatmapDataOf(d, showNegativeFunding)
    IN  IF Len(h.data) = 0 THEN opts
        ELSE chartOptions(h, getThemeColors(theme), theme = AppThemesDARK, mobile)

----------------------------------------------------------------------------
(* Polling effect: fetchData, setInterval, cleanup                         *)

toLowerCase(token) ==
    CASE token = "HYPE" -> "hype" [] token = "BTC" -> "btc" [] token = "ETH" -> "eth"

\* The synchronous head of fetchData, run in the closure of effect instance e
\* whose selectedToken is token: the request leaves (cache-busting query
\* parameter left out of the url).
StartFetch(pending, e, token) ==
    pending \cup {[id |-> nextFetch, effect |-> e, token |-> token,
                   url |-> "/data/heatmap/" \o toLowerCase(token) \o ".json"]}

\* if (!isCancelled) ... in the closure of effect instance e.
NeverCancelled(e) == FALSE
IsCancelled(e) == e \in cancelled

\* window.clearInterval(intervalId) of effect instance e (setInterval
\* returns a positive id, so the guard `if (intervalId)` passes).
KeepInterval(ts, e) == ts
ClearInterval(ts, e) == {tm \in ts : tm.effect # e}

\* catch (e) { if (!isCancelled) setDataset(null) }
KeepDatasetOnFailure(d) == d
DatasetOnFailure(d) == Null

\* setLastUpdatedAt(Date.now()) happens in the success branch only; prev is
\* the value held, time is Date.now() at the commit.
UpdatedAtStampedOnFailure(outcome, prev, time) == time
UpdatedAtAfter(outcome, prev, time) == IF outcome.kind = "ok" THEN time ELSE prev

\* setIsMobile(window.innerWidth <= 768)
MobileBreakpoint == 768
checkMobileExclusive(width) == width < MobileBreakpoint
checkMobile(width) == width <= MobileBreakpoint

\* What a response can be: a transport failure, a non-success status, a
\* body that is not JSON, or a parsed document (the JSON text null parses
\* to null).
ValidDoc == [sources |-> <<"SRC1", "SRC2">>, pools |-> <<"POOL1">>,
             valuesBps |-> << <<-8, 12>> >>]
EmptyDoc == [sources |-> <<>>, pools |-> <<>>, valuesBps |-> <<>>]
ShortRowDoc == [sources |-> <<"SRC1", "SRC2">>, pools |-> <<"POOL1">>,
                valuesBps |-> << <<12>> >>]
FewRowsDoc == [sources |-> <<"SRC1">>, pools |-> <<"POOL1", "POOL2">>,
               valuesBps |-> << <<12>> >>]
ResponseDocs == {ValidDoc, EmptyDoc, ShortRowDoc, FewRowsDoc, Null}
Outcomes ==
    {[kind |-> "network_error"], [kind |-> "not_ok"], [kind |-> "bad_body"]}
    \cup {[kind |-> "ok", json |-> d] : d \in ResponseDocs}

----------------------------------------------------------------------------
(* Actions of the component                                                *)

Init ==
    /\ \E w \in Widths, th \in Themes : FirstRender(w, th)
    /\ BuilderIdle
    /\ LabelIdle
    /\ ThemeIdle

\* The effects of the first commit: the polling effect (an immediate
\* fetchData() and setInterval), the resize effect (checkMobile() and
\* addEventListener) and the composition effect.
Mount ==
    /\ phase = "initial"
    /\ effect < MaxEffects
    /\ nextFetch <= MaxFetches
    /\ phase' = "mounted"
    /\ effect' = effect + 1
    /\ inflight' = StartFetch(inflight, effect + 1, selectedToken)
    /\ nextFetch' = nextFetch + 1
    /\ timers' = timers \cup {[effect |-> effect + 1, token |-> selectedToken]}
    /\ isMobile' = checkMobile(innerWidth)
    /\ resizeListener' = TRUE
    /\ options' = CompositionEffect(options, dataset, resolvedTheme, isMobile')
    /\ UNCHANGED <<selectedToken, dataset, lastUpdatedAt, resolvedTheme, innerWidth,
                   cancelled, now, lastCommit, builderVars, labelVars, themeVars>>

\* onClick of a token tab: setSelectedToken(token). A changed token re-runs
\* the polling effect: cleanup of the old instance, then setup of a new one.
SelectToken(token) ==
    /\ phase = "mounted"
    /\ options # Null
    /\ IF token = selectedToken
       THEN UNCHANGED <<selectedToken, cancelled, timers, effect, inflight, nextFetch>>
       ELSE /\ effect < MaxEffects
            /\ nextFetch <= MaxFetches
            /\ selectedToken' = token
            /\ cancelled' = cancelled \cup {effect}
            /\ effect' = effect + 1
            /\ inflight' = StartFetch(inflight, effect + 1, token)
            /\ nextFetch' = nextFetch + 1
            /\ timers' = ClearInterval(timers, effect)
                            \cup {[effect |-> effect + 1, token |-> token]}
    /\ UNCHANGED <<phase, options, dataset, lastUpdatedAt, isMobile, resolvedTheme,
                   innerWidth, resizeListener, now, lastCommit, builderVars, labelVars, themeVars>>

\* The interval fires: fetchData() in the closure of the timer's effect.
Tick(tm) ==
    /\ tm \in timers
    /\ nextFetch <= MaxFetches
    /\ inflight' = StartFetch(inflight, tm.effect, tm.token)
    /\ nextFetch' = nextFetch + 1
    /\ UNCHANGED <<phase, options, selectedToken, dataset, lastUpdatedAt, isMobile,
                   resolvedTheme, innerWidth, resizeListener, effect, cancelled, timers,
                   now, lastCommit, builderVars, labelVars, themeVars>>

\* The response of fetch f arrives and fetchData resumes after its await.
\* An uncancelled closure writes the state; the render that follows rebuilds
\* the matrix, and a TypeError thrown there unmounts the component (the
\* ErrorBoundary of the returned tree is below this render), which runs the
\* cleanups of its effects.
FetchComplete(f, outcome) ==
    /\ f \in inflight
    /\ inflight' = inflight \ {f}
    /\ now' = now + 1
    /\ IF IsCancelled(f.effect)
       THEN UNCHANGED <<phase, options, dataset, lastUpdatedAt, lastCommit,
                        cancelled, timers, resizeListener>>
       ELSE /\ dataset' = IF outcome.kind = "ok" THEN outcome.json
                          ELSE DatasetOnFailure(dataset)
            /\ lastUpdatedAt' = UpdatedAtAfter(outcome, lastUpdatedAt, now')
            /\ lastCommit' = [id |-> f.id, effect |-> f.effect, token |-> f.token,
                              url |-> f.url, outcome |-> outcome.kind]
            /\ IF heatmapDataOf(dataset', showNegativeFunding).threw
               THEN /\ phase' = "crashed"
                    /\ cancelled' = cancelled \cup {effect}
                    /\ timers' = ClearInterval(timers, effect)
                    /\ resizeListener' = FALSE
                    /\ UNCHANGED options
               ELSE /\ options' = CompositionEffect(options, dataset', resolvedTheme, isMobile)
                    /\ UNCHANGED <<phase, cancelled, timers, resizeListener>>
    /\ UNCHANGED <<selectedToken, isMobile, resolvedTheme, innerWidth, effect, nextFetch,
                   builderVars, labelVars, themeVars>>

\* The window is resized; a registered listener runs checkMobile.
Resize(width) ==
    /\ innerWidth' = width
    /\ IF resizeListener
       THEN /\ isMobile' = checkMobile(width)
            /\ options' = CompositionEffect(options, dataset, resolvedTheme, isMobile')
       ELSE UNCHANGED <<isMobile, options>>
    /\ UNCHANGED <<phase, selectedToken, dataset, lastUpdatedAt, resolvedTheme,
                   resizeListener, effect, cancelled, timers, inflight, nextFetch, now,
                   lastCommit, builderVars, labelVars, themeVars>>

\* The theme provider resolves another theme; a mounted component re-renders.
ThemeChange(theme) ==
    /\ resolvedTheme' = theme
    /\ options' = IF phase = "mounted"
                  THEN CompositionEffect(options, dataset, theme, isMobile)
                  ELSE options
    /\ UNCHANGED <<phase, selectedToken, dataset, lastUpdatedAt, isMobile, innerWidth,
                   resizeListener, effect, cancelled, timers, inflight, nextFetch, now,
                   lastCommit, builderVars, labelVars, themeVars>>

\* The component is torn down: the cleanups of both effects run.
Unmount ==
    /\ phase = "mounted"
    /\ phase' = "unmounted"
    /\ cancelled' = cancelled \cup {effect}
    /\ timers' = ClearInterval(timers, effect)
    /\ resizeListener' = FALSE
    /\ UNCHANGED <<options, selectedToken, dataset, lastUpdatedAt, isMobile, resolvedTheme,
                   innerWidth, effect, inflight, nextFetch, now, lastCommit,
                   builderVars, labelVars, themeVars>>

\* A full remount: a new instance renders with fresh useState cells. What
\* the old instance left in flight stays in flight.
Remount ==
    /\ phase \in {"unmounted", "crashed"}
    /\ effect < MaxEffects
    /\ nextFetch <= MaxFetches
    /\ phase' = "initial"
    /\ options' = Null
    /\ selectedToken' = "HYPE"
    /\ dataset' = Null
    /\ lastUpdatedAt' = 0
    /\ isMobile' = FALSE
    /\ UNCHANGED <<resolvedTheme, innerWidth, resizeListener, effect, cancelled, timers,
                   inflight, nextFetch, now, lastCommit, builderVars, labelVars, themeVars>>

Next ==
    \/ Mount
    \/ \E token \in TokenType : SelectToken(token)
    \/ \E tm \in timers : Tick(tm)
    \/ \E f \in inflight, outcome \in Outcomes : FetchComplete(f, outcome)
    \/ \E width \in Widths : Resize(width)
    \/ \E theme \in Themes : ThemeChange(theme)
    \/ Unmount
    \/ Remount

Spec == Init /\ [][Next]_vars

----------------------------------------------------------------------------
(* The matrix builder applied to enumerated datasets                       *)

CellValues == {-8, 12}
SeqsUpTo(S, n) == UNION {[1..k -> S] : k \in 0..n}
SourceNames(n) == [k \in 1..n |-> "SRC" \o Decimal(k)]
PoolNames(n) == [k \in 1..n |-> "POOL" \o Decimal(k)]

\* Every document with at most MaxDim sources, pools, rows and columns (rows
\* of any lengths, so malformed shapes are among them), a document lacking
\* each field, and no document at all.
BuilderInputs ==
    {[sources |-> SourceNames(n), pools |-> PoolNames(m), valuesBps |-> v] :
        n \in 0..MaxDim, m \in 0..MaxDim, v \in SeqsUpTo(SeqsUpTo(CellValues, MaxDim), MaxDim)}
    \cup {[pools |-> PoolNames(1), valuesBps |-> << <<12>> >>],
          [sources |-> SourceNames(1), valuesBps |-> << <<12>> >>],
          [sources |-> SourceNames(1), pools |-> PoolNames(1)],
          Null}

InitBuilder ==
    /\ FirstRender(769, AppThemesLIGHT)
    /\ bDataset \in BuilderInputs
    /\ bConfig \in BOOLEAN
    /\ bResult = NoResult
    /\ LabelIdle
    /\ ThemeIdle

Build ==
    /\ bResult = NoResult
    /\ bResult' = [called |-> TRUE, out |-> heatmapDataOf(bDataset, bConfig)]
    /\ UNCHANGED <<bDataset, bConfig, compVars, labelVars, themeVars>>

NextBuilder == Build
SpecBuilder == InitBuilder /\ [][NextBuilder]_vars

----------------------------------------------------------------------------
(* The label formatter applied to enumerated cells                         *)

LabelInputs ==
    {[value |-> <<0, 0, Num(v)>>] : v \in (0 - MaxLabelValue)..MaxLabelValue}
    \cup {[value |-> <<>>], [value |-> <<0, 0, Undefined>>]}

InitLabel ==
    /\ FirstRender(769, AppThemesLIGHT)
    /\ BuilderIdle
    /\ fParams \in LabelInputs
    /\ fLabel = <<>>
    /\ ThemeIdle

Format ==
    /\ fLabel = <<>>
    /\ fLabel' = <<formatter(fParams)>>
    /\ UNCHANGED <<fParams, compVars, builderVars, themeVars>>

NextLabel == Format
SpecLabel == InitLabel /\ [][NextLabel]_vars

----------------------------------------------------------------------------
(* The theme resolver applied to enumerated modes                          *)

\* Strings a caller can hand to getThemeColors: the AppThemes values and
\* strings that are not the literal 'dark'.
ModeInputs == {AppThemesLIGHT, AppThemesDARK, AppThemesSYSTEM,
               "", "Dark", "DARK", "dark ", "undefined"}

InitTheme ==
    /\ FirstRender(769, AppThemesLIGHT)
    /\ BuilderIdle
    /\ LabelIdle
    /\ tCalls = <<>>
    /\ tMode \in ModeInputs
    /\ tSelected = NoResult

\* One more call of getColorsByTheme(isDark); what earlier calls returned
\* stays where it is.
Resolve(isDark) ==
    /\ Len(tCalls) < MaxCalls
    /\ tCalls' = Append(tCalls, [isDark |-> isDark, palette |-> getColorsByTheme(isDark)])
    /\ UNCHANGED <<tMode, tSelected, compVars, builderVars, labelVars>>

\* colors = getThemeColors(resolvedTheme)
Select ==
    /\ tSelected = NoResult
    /\ tSelected' = [called |-> TRUE, out |-> getThemeColors(tMode)]
    /\ UNCHANGED <<tCalls, tMode, compVars, builderVars, labelVars>>

NextTheme ==
    \/ \E isDark \in BOOLEAN : Resolve(isDark)
    \/ Select
SpecTheme == InitTheme /\ [][NextTheme]_vars

----------------------------------------------------------------------------
(* Properties                                                              *)

\* The default matrix, written out: 3 sources x 3 pools, source-major.
DefaultTriples ==
    << <<0, 0, Num(12)>>, <<0, 1, Num(5)>>,  <<0, 2, Num(-4)>>,
       <<1, 0, Num(25)>>, <<1, 1, Num(18)>>, <<1, 2, Num(10)>>,
       <<2, 0, Num(-8)>>, <<2, 1, Num(3)>>,  <<2, 2, Num(37)>> >>
DefaultMatrix ==
    [threw |-> FALSE,
     data |-> DefaultTriples,
     lpSteps |-> 3,
     fundingSteps |-> 3,
     xAxisLabels |-> <<"HYPERCORE", "PYTH", "REDSTONE">>,
     yAxisLabels |-> <<"POOL A HyperSwap 0.05", "POOL B HyperSwap 0.3", "POOL C Project X">>]
DefaultSeries == [k \in 1..9 |-> [value |-> DefaultTriples[k]]]

\* The fetches whose response arrived in this step.
Completed == inflight \ inflight'
\* The fetches initiated in this step.
Initiated == inflight' \ inflight

\* C1: a fetch that completes after the selection moved on from the token it
\* was initiated for, after its polling effect was replaced, or after the
\* component was torn down, writes nothing: dataset, lastUpdatedAt and the
\* record of the last commit stay as they were.
C1_RaceFreeCommit ==
    [][\A f \in Completed :
          (f.token # selectedToken \/ f.effect # effect \/ phase # "mounted")
              => /\ dataset' = dataset
                 /\ lastUpdatedAt' = lastUpdatedAt
                 /\ lastCommit' = lastCommit]_vars

\* C1 witness: BTC is selected, its fetch (2) is still out, and the HYPE
\* fetch of the mount (1) has completed without any commit.
C1_Witness ==
    /\ phase = "mounted"
    /\ selectedToken = "BTC"
    /\ nextFetch = 3
    /\ {f.id : f \in inflight} = {2}
    /\ lastCommit = NoCommit
    /\ dataset = Null
    /\ lastUpdatedAt = 0

\* C2 (as claimed): a fetch commits only if no newer fetch has been
\* initiated, that is, only the fetch with the latest id ever writes state.
C2_OnlyLatestCommits ==
    [][lastCommit' # lastCommit => lastCommit'.id = nextFetch - 1]_vars

\* C3: a committed failure leaves the dataset null, whatever was held, and
\* the options then carry the default 3x3 matrix with the default labels.
C3_FailureClearsDataset ==
    [][(lastCommit' # lastCommit /\ lastCommit'.outcome # "ok")
          => /\ dataset' = Null
             /\ options'.seriesData = DefaultSeries
             /\ options'.xAxisData = <<"HYPERCORE", "PYTH", "REDSTONE">>
             /\ options'.yAxisData = DefaultMatrix.yAxisLabels]_vars

\* C3 witness: after a success had been committed (lastUpdatedAt is set), a
\* non-success status for /data/heatmap/btc.json was committed.
C3_Witness ==
    /\ phase = "mounted"
    /\ lastUpdatedAt > 0
    /\ lastCommit.id > 0
    /\ lastCommit.outcome = "not_ok"
    /\ lastCommit.url = "/data/heatmap/btc.json"
    /\ dataset = Null
    /\ options.xAxisData = <<"HYPERCORE", "PYTH", "REDSTONE">>

\* C4: at most one interval is live, it belongs to the current polling
\* effect of a mounted component and polls the selected token; and every
\* fetch that is initiated is initiated by a mounted component for the token
\* selected after the step.
C4_TimerCancellation ==
    /\ [](/\ Cardinality(timers) <= 1
          /\ \A tm \in timers :
                tm.effect = effect /\ tm.token = selectedToken /\ phase = "mounted")
    /\ [][\A f \in Initiated :
             f.token = selectedToken' /\ f.effect = effect' /\ phase' = "mounted"]_vars

\* C4 witness: torn down after a token change, with no interval left.
C4_Witness ==
    /\ phase = "unmounted"
    /\ selectedToken = "ETH"
    /\ effect = 2
    /\ timers = {}

\* A dataset of the documented shape: N >= 1 sources, M >= 1 pools, M rows
\* of N columns.
ValidDataset(d) ==
    /\ d # Null
    /\ {"sources", "pools", "valuesBps"} \subseteq DOMAIN d
    /\ Len(d.sources) >= 1
    /\ Len(d.pools) >= 1
    /\ Len(d.valuesBps) = Len(d.pools)
    /\ \A j \in 1..Len(d.valuesBps) : Len(d.valuesBps[j]) = Len(d.sources)

\* C5: for a valid dataset the builder returns N*M triples, the one at
\* 0-based position i*M + j being (i, j, valuesBps[j][i]), with the sources
\* as x labels and the pools as y labels.
C5_ShapeAndTransposition ==
    (bResult.called /\ ValidDataset(bDataset)) =>
        LET out == bResult.out
            N == Len(bDataset.sources)
            M == Len(bDataset.pools)
        IN  /\ ~out.threw
            /\ Len(out.data) = N * M
            /\ \A i \in 0..(N - 1), j \in 0..(M - 1) :
                  out.data[i * M + j + 1] = <<i, j, Num(bDataset.valuesBps[j + 1][i + 1])>>
            /\ out.xAxisLabels = bDataset.sources
            /\ out.yAxisLabels = bDataset.pools
            /\ out.lpSteps = N
            /\ out.fundingSteps = M

\* C5 witness: the builder has run on a 2-source, 1-pool dataset whose two
\* values differ.
C5_Witness ==
    /\ bResult.called
    /\ ValidDataset(bDataset)
    /\ bDataset.valuesBps = << <<-8, 12>> >>
    /\ bResult.out.data = << <<0, 0, Num(-8)>>, <<1, 0, Num(12)>> >>

\* A dataset the builder must not use: none, or one whose sources, pools or
\* values are empty or absent.
EmptyOrAbsent(d, f) == f \notin DOMAIN d \/ d[f] = <<>>
FallbackCase(d) ==
    \/ d = Null
    \/ EmptyOrAbsent(d, "sources")
    \/ EmptyOrAbsent(d, "pools")
    \/ EmptyOrAbsent(d, "valuesBps")

\* C6: in a fallback case the builder returns exactly the default matrix,
\* whatever showNegativeFunding is, and no matrix it returns is empty.
C6_FallbackIsDefault ==
    bResult.called =>
        /\ FallbackCase(bDataset) => bResult.out = DefaultMatrix
        /\ ~bResult.out.threw => Len(bResult.out.data) > 0

\* C6 witness: the builder has run with showNegativeFunding set on a
\* dataset that has pools and values but no sources.
C6_Witness ==
    /\ bResult.called
    /\ bConfig
    /\ bDataset # Null
    /\ {"sources", "pools", "valuesBps"} \subseteq DOMAIN bDataset
    /\ bDataset.sources = <<>>
    /\ bDataset.pools # <<>>
    /\ bDataset.valuesBps # <<>>
    /\ bResult.out = DefaultMatrix

\* A held dataset with sources and pools whose matrix has too few rows or a
\* row that is too short.
Malformed(d) ==
    /\ d # Null
    /\ {"sources", "pools", "valuesBps"} \subseteq DOMAIN d
    /\ d.sources # <<>>
    /\ d.pools # <<>>
    /\ \/ Len(d.valuesBps) < Len(d.pools)
       \/ \E j \in 1..Len(d.valuesBps) : Len(d.valuesBps[j]) < Len(d.sources)

\* C7 (as claimed): the render never fails, a malformed dataset is rendered
\* as the default matrix, and no cell of the chart is undefined.
C7_MalformedFallsBack ==
    /\ phase # "crashed"
    /\ (phase = "mounted" /\ Malformed(dataset)) => options.seriesData = DefaultSeries
    /\ options # Null =>
          \A k \in 1..Len(options.seriesData) : IsNumber(options.seriesData[k].value[3])

\* C8: the label of an integer cell v is "+v bps" for v > 0, "v bps" with
\* its minus sign for v < 0 and "0 bps" for 0.
C8_LabelFormat ==
    (fLabel # <<>> /\ Len(fParams.value) = 3 /\ IsNumber(fParams.value[3])) =>
        LET v == fParams.value[3].n
            label == fLabel[1]
        IN  /\ v > 0 => label = "+" \o Decimal(v) \o " bps"
            /\ v < 0 => label = "-" \o Decimal(0 - v) \o " bps"
            /\ v = 0 => label = "0 bps"
            /\ v = 12 => label = "+12 bps"
            /\ v = -8 => label = "-8 bps"
            /\ v = 5 => label = "+5 bps"
            /\ v = 37 => label = "+37 bps"
            /\ v = -4 => label = "-4 bps"
            /\ v = -10 => label = "-10 bps"

\* C8 witness: the three documented cells have been formatted.
C8_WitnessPositive == fParams.value = <<0, 0, Num(12)>> /\ fLabel = <<"+12 bps">>
C8_WitnessNegative == fParams.value = <<0, 0, Num(-8)>> /\ fLabel = <<"-8 bps">>
C8_Witness == fParams.value = <<0, 0, Num(0)>> /\ fLabel = <<"0 bps">>

\* C9: while mounted the compact flag is (innerWidth <= 768); once the
\* component is torn down no resize changes it (nor the options).
C9_CompactFlag ==
    /\ [](phase = "mounted" =>
            /\ isMobile = (innerWidth <= 768)
            /\ (innerWidth = 769 => ~isMobile)
            /\ (innerWidth = 768 => isMobile)
            /\ (innerWidth = 320 => isMobile)
            /\ resizeListener)
    /\ [](phase \in {"unmounted", "crashed"} => ~resizeListener)
    /\ [][(phase \in {"unmounted", "crashed"} /\ phase' = phase)
             => (isMobile' = isMobile /\ options' = options)]_vars

\* C9 witness: mounted at the boundary width with the flag set and the
\* options composed for the compact layout.
C9_Witness ==
    /\ phase = "mounted"
    /\ innerWidth = 768
    /\ isMobile
    /\ options.xAxisLabelRotate = 45

\* C9 witness of the teardown half: torn down wide, resized to 320 since.
C9_WitnessAfterTeardown ==
    /\ phase = "unmounted"
    /\ innerWidth = 320
    /\ ~isMobile

\* C10: the options are absent exactly until the first composition, and a
\* step that is not a remount never makes composed options absent again.
C10_ComposedStaysComposed ==
    /\ []((phase = "initial") <=> (options = Null))
    /\ [][(options # Null /\ phase' # "initial") => options' # Null]_vars

\* C10 witness: composed options survive a committed failure that followed
\* a committed success, a token change and a theme change.
C10_Witness ==
    /\ phase = "mounted"
    /\ options # Null
    /\ lastUpdatedAt > 0
    /\ lastCommit.id > 0
    /\ lastCommit.outcome = "network_error"
    /\ selectedToken # "HYPE"
    /\ resolvedTheme = AppThemesDARK
    /\ isMobile

\* The fields of a Theme Palette and of its chart sub-palette.
PaletteFields == {"background", "backgroundOpposite", "primary", "default",
                  "hyperEvmLp", "hyperEvmBalances", "hyperCorePerp", "hyperCoreSpot",
                  "charts"}
ChartFields == {"text", "axis", "line", "tooltipBackground", "heatmapGradient"}
FullyPopulated(p) ==
    /\ PaletteFields \subseteq DOMAIN p
    /\ \A f \in PaletteFields \ {"charts"} : p[f] # ""
    /\ ChartFields \subseteq DOMAIN p.charts
    /\ \A f \in ChartFields \ {"heatmapGradient"} : p.charts[f] # ""
    /\ Len(p.charts.heatmapGradient) = 9
    /\ \A k \in 1..9 : p.charts.heatmapGradient[k] # ""

\* C11: every palette the resolver returns is fully populated; two calls
\* with the same boolean return equal palettes and two calls with different
\* booleans return different 9-step gradients; and getThemeColors returns
\* the dark palette exactly for the literal 'dark', the light one otherwise.
C11_ThemeResolver ==
    /\ \A k \in 1..Len(tCalls) :
          /\ FullyPopulated(tCalls[k].palette)
          /\ tCalls[k].palette.background = IF tCalls[k].isDark THEN "#0f1a1f" ELSE "#f6fefd"
          /\ tCalls[k].palette.charts.heatmapGradient[1] =
                IF tCalls[k].isDark THEN "#14532d" ELSE "#dcfce7"
    /\ \A k, l \in 1..Len(tCalls) :
          /\ tCalls[k].isDark = tCalls[l].isDark => tCalls[k].palette = tCalls[l].palette
          /\ tCalls[k].isDark # tCalls[l].isDark =>
                tCalls[k].palette.charts.heatmapGradient
                    # tCalls[l].palette.charts.heatmapGradient
    /\ tSelected.called =>
          /\ FullyPopulated(tSelected.out)
          /\ (tMode = "dark") <=> (tSelected.out.charts.text = "#e6e8ef")
          /\ (tMode # "dark") <=> (tSelected.out.charts.text = "#434651")
          /\ (tMode = "dark") <=> (tSelected.out.background = "#0f1a1f")
          /\ tSelected.out.charts.heatmapGradient[9] =
                IF tMode = "dark" THEN "#b91c1c" ELSE "#dc2626"

\* C11 witness: the resolver has been called twice with true, and
\* getThemeColors has returned the light palette for 'system'.
C11_Witness ==
    /\ Len(tCalls) = 2
    /\ tCalls[1].isDark
    /\ tCalls[2].isDark
    /\ tCalls[1].palette = tCalls[2].palette
    /\ tMode = AppThemesSYSTEM
    /\ tSelected.called
    /\ tSelected.out.charts.text = "#434651"

\* C12 (as claimed): no polling effect instance ever has two fetches
\* outstanding at once.
C12_PollSerialized ==
    \A f, g \in inflight : f.effect = g.effect => f.id = g.id

\* A step in which a fetch writes the state.
Commits == lastCommit' # lastCommit

\* C13: a token selection leaves dataset, lastUpdatedAt, options and the
\* commit record as they were and restarts polling for the new token; a
\* committed failure leaves lastUpdatedAt, the selection and the compact
\* flag as they were; a committed success sets lastUpdatedAt; and
\* lastUpdatedAt changes in no other step than a committed success or a
\* remount (which starts again from null).
C13_SelectionAndFailureFrame ==
    /\ [][(selectedToken' # selectedToken /\ phase' # "initial")
             => /\ dataset' = dataset
                /\ lastUpdatedAt' = lastUpdatedAt
                /\ options' = options
                /\ lastCommit' = lastCommit
                /\ isMobile' = isMobile
                /\ effect' = effect + 1
                /\ effect \in cancelled'
                /\ \E f \in Initiated : f.token = selectedToken' /\ f.effect = effect']_vars
    /\ [][(Commits /\ lastCommit'.outcome # "ok")
             => /\ lastUpdatedAt' = lastUpdatedAt
                /\ selectedToken' = selectedToken
                /\ isMobile' = isMobile]_vars
    /\ [][(Commits /\ lastCommit'.outcome = "ok") => lastUpdatedAt' > 0]_vars
    /\ [][lastUpdatedAt' # lastUpdatedAt
             => \/ Commits /\ lastCommit'.outcome = "ok" /\ lastUpdatedAt' > 0
                \/ phase' = "initial" /\ lastUpdatedAt' = 0]_vars
    /\ [](phase = "initial" => lastUpdatedAt = 0)

\* C13 witness: of the two fetches initiated, the HYPE fetch of the mount
\* committed a success (at time 2), BTC was selected, and the BTC fetch then
\* committed a failure (at time 3): the dataset is gone and lastUpdatedAt
\* still holds 2.
C13_Witness ==
    /\ phase = "mounted"
    /\ selectedToken = "BTC"
    /\ nextFetch = 3
    /\ now = 3
    /\ lastUpdatedAt = 2
    /\ lastCommit.id = 2
    /\ lastCommit.token = "BTC"
    /\ lastCommit.outcome = "not_ok"
    /\ dataset = Null

\* The other half of C13: BTC is selected and the dataset a HYPE fetch
\* committed is still held, the BTC fetch being out.
C13_WitnessStaleHeld ==
    /\ phase = "mounted"
    /\ selectedToken = "BTC"
    /\ lastCommit.id > 0
    /\ lastCommit.token = "HYPE"
    /\ dataset = ValidDoc
    /\ lastUpdatedAt > 0
    /\ \E f \in inflight : f.token = "BTC"

====
